---- MODULE Spec2Model ----
(***************************************************************************)
(* Model of the transaction calculator of src/transaction/bot.py:          *)
(* TransactionCalculator (line parsing, the ledger, status and report)     *)
(* and TransactionBot (the handlers of the messages and commands of the    *)
(* users, which share one calculator).                                     *)
(*                                                                         *)
(* A Python str is a sequence of one-character strings; a text is the     *)
(* sequence of its lines (what text.split('\n') yields).  An amount is a  *)
(* fixed-point integer counted in hundredths.  None and the empty string   *)
(* are both the empty sequence (both are falsy in the code); an Optional   *)
(* record is a sequence of length 0 or 1.                                  *)
(***************************************************************************)
EXTENDS Integers, Sequences, FiniteSets, Bags, TLC

VARIABLES
    calculator,     \* the TransactionCalculator: transactions, total_transactions, wallets_seen
    last,           \* the last call made on the calculator and what it returned
    history,        \* the bag of the transactions recorded since the last clear
    fresh,          \* a calculator constructed at the last clear and given the same calls
    other,          \* a second TransactionCalculator, of another session
    other_history,  \* the bag of the transactions the second calculator recorded
    bot,            \* the TransactionBot: last_hashtag, and the reply each handler awaits
    sessions        \* for each user, what the user sent since the user's last clear

vars == <<calculator, last, history, fresh, other, other_history, bot, sessions>>

None == <<>>

-----------------------------------------------------------------------------
(* Characters and the str methods the code uses                            *)

\* the ASCII characters of the model's texts
Digits == <<"0","1","2","3","4","5","6","7","8","9">>

Uppers ==
    <<"A","B","C","D","E","F","G","H","I","J","K","L","M",
      "N","O","P","Q","R","S","T","U","V","W","X","Y","Z">>

Lowers ==
    <<"a","b","c","d","e","f","g","h","i","j","k","l","m",
      "n","o","p","q","r","s","t","u","v","w","x","y","z">>

\* the other characters with their code points
Puncts ==
    {<<" ", 32>>, <<"#", 35>>, <<"$", 36>>, <<"(", 40>>, <<")", 41>>,
     <<"-", 45>>, <<".", 46>>, <<"/", 47>>, <<":", 58>>, <<"_", 95>>,
     <<"|", 124>>}

\* the character classes of the regular expressions
SpaceSet == {" "}
DigitSet == {Digits[i] : i \in 1..10}
UpperSet == {Uppers[i] : i \in 1..26}
LowerSet == {Lowers[i] : i \in 1..26}
DigitDotSet == DigitSet \cup {"."}
AlnumSet == DigitSet \cup UpperSet \cup LowerSet
WordSet == AlnumSet \cup {"_"}
HexSet == DigitSet \cup {"a","b","c","d","e","f","A","B","C","D","E","F"}
CharSet == AlnumSet \cup {p[1] : p \in Puncts}

\* the index of x in the sequence q
IndexIn(q, x) == CHOOSE i \in 1..Len(q) : q[i] = x

\* ord(c)
Ord(c) ==
    IF c \in DigitSet THEN 47 + IndexIn(Digits, c)
    ELSE IF c \in UpperSet THEN 64 + IndexIn(Uppers, c)
    ELSE IF c \in LowerSet THEN 96 + IndexIn(Lowers, c)
    ELSE (CHOOSE p \in Puncts : p[1] = c)[2]

LowerCh(c) == IF c \in UpperSet THEN Lowers[IndexIn(Uppers, c)] ELSE c
UpperCh(c) == IF c \in LowerSet THEN Uppers[IndexIn(Lowers, c)] ELSE c

\* str.lower(), str.upper()
Lower(s) == [i \in 1..Len(s) |-> LowerCh(s[i])]
Upper(s) == [i \in 1..Len(s) |-> UpperCh(s[i])]

\* s[i:i+len(p)] == p, for a 1-based i
MatchAt(s, i, p) ==
    /\ i >= 1
    /\ i + Len(p) - 1 <= Len(s)
    /\ \A k \in 1..Len(p) : s[i + k - 1] = p[k]

\* s.startswith(p)
StartsWith(s, p) == MatchAt(s, 1, p)

\* p in s
Contains(s, p) == \E i \in 1..(Len(s) + 1) : MatchAt(s, i, p)

\* the positions of the characters of s that are not white space
Inked(s) == {i \in 1..Len(s) : s[i] \notin SpaceSet}

\* s[a:b] for the least a and the greatest b of a non-empty set I
Between(s, I) ==
    SubSeq(s, CHOOSE i \in I : \A j \in I : i <= j, CHOOSE i \in I : \A j \in I : i >= j)

\* str.strip()
Strip(s) == IF Inked(s) = {} THEN <<>> ELSE Between(s, Inked(s))

\* the length of the longest run of characters of a class starting at i
RECURSIVE RunLen(_, _, _)
RunLen(s, i, class) ==
    IF i > Len(s) \/ s[i] \notin class THEN 0 ELSE 1 + RunLen(s, i + 1, class)

\* str.split(): the maximal runs of non-whitespace characters
RECURSIVE SplitFrom(_, _)
SplitFrom(s, i) ==
    IF i > Len(s) THEN <<>>
    ELSE IF s[i] \in SpaceSet THEN SplitFrom(s, i + 1)
    ELSE <<SubSeq(s, i, i + RunLen(s, i, CharSet \ SpaceSet) - 1)>>
             \o SplitFrom(s, i + RunLen(s, i, CharSet \ SpaceSet))

Split(s) == SplitFrom(s, 1)

\* ' '.join(parts)
RECURSIVE Join(_)
Join(parts) ==
    IF parts = <<>> THEN <<>>
    ELSE IF Len(parts) = 1 THEN parts[1]
    ELSE parts[1] \o <<" ">> \o Join(Tail(parts))

\* line.split('|')[0]
BeforeBar(s) == SubSeq(s, 1, RunLen(s, 1, CharSet \ {"|"}))

\* Python's order on str: by code point, a proper prefix first
RECURSIVE StrLess(_, _)
StrLess(a, b) ==
    IF b = <<>> THEN FALSE
    ELSE IF a = <<>> THEN TRUE
    ELSE IF a[1] # b[1] THEN Ord(a[1]) < Ord(b[1])
    ELSE StrLess(Tail(a), Tail(b))

\* sorted(S) for a set of str
RECURSIVE Sorted(_)
Sorted(S) ==
    IF S = {} THEN <<>>
    ELSE LET m == CHOOSE x \in S : \A y \in S : x = y \/ StrLess(x, y)
         IN  <<m>> \o Sorted(S \ {m})

-----------------------------------------------------------------------------
(* The literals of the code                                                *)

sReceived == <<"r","e","c","e","i","v","e","d",":">>
sForwarded == <<"f","o","r","w","a","r","d","e","d">>
sFrom == <<"f","r","o","m">>
sTronscan == <<"t","r","o","n","s","c","a","n",".","o","r","g","/","#","/","a","d","d","r","e","s","s","/">>
sBscscan == <<"b","s","c","s","c","a","n",".","c","o","m","/","a","d","d","r","e","s","s","/">>
sEtherscan == <<"e","t","h","e","r","s","c","a","n",".","i","o","/","a","d","d","r","e","s","s","/">>
s0x == <<"0","x">>

TRON == <<"T","R","O","N">>
BSC == <<"B","S","C">>
ETH == <<"E","T","H">>
BTC == <<"B","T","C">>
SOL == <<"S","O","L">>
UNKNOWN == <<"U","N","K","N","O","W","N">>

\* simple_tags of _extract_hashtag_from_text
simple_tags ==
    {<<"#","b","n","b">>, <<"#","t","r","o","n">>, <<"#","e","t","h">>,
     <<"#","b","t","c">>, <<"#","s","o","l">>}

\* self.rates, in hundredths of a USD per unit
rates ==
    (<<"U","S","D","T">> :> 100) @@ (<<"U","S","D","C">> :> 100) @@
    (<<"B","N","B">> :> 88600) @@ (<<"T","R","X">> :> 12) @@
    (<<"E","T","H">> :> 350000) @@ (<<"B","T","C">> :> 6800000) @@
    (<<"S","O","L">> :> 15000)

-----------------------------------------------------------------------------
(* The regular expressions of __init__, as re.search computes them: the    *)
(* leftmost position where the pattern matches, greedy with backtracking.  *)
(* A match is the tuple of its groups, no match is <<>>.  The patterns are *)
(* compiled with re.IGNORECASE: ls is the line in lower case.              *)

Least(S) == CHOOSE i \in S : \A j \in S : i <= j
Greatest(S) == CHOOSE i \in S : \A j \in S : i >= j

\* the positions of the matches of a pattern anchored at each position
Hits(matches) == {i \in 1..Len(matches) : matches[i] # <<>>}

\* the leftmost match
FirstMatch(matches) ==
    IF Hits(matches) = {} THEN <<>> ELSE matches[Least(Hits(matches))]

\* where group 2 of _re_amount_currency starts when group 1 is s[j..j+k-1]
AmountCurrencyEnd(s, p2) ==
    IF p2 <= Len(s) /\ s[p2] = "#" THEN p2 + 1 ELSE p2

\* the lengths group 1 can keep so that \s*#?([A-Za-z0-9]{2,}) matches
AmountLengths(s, j) ==
    {k \in 1..RunLen(s, j, DigitDotSet) :
        RunLen(s, AmountCurrencyEnd(s, j + k + RunLen(s, j + k, SpaceSet)), AlnumSet) >= 2}

AmountCurrencyGroups(s, j, p3) ==
    <<SubSeq(s, j, p3[1] - 1), SubSeq(s, p3[2], p3[2] + RunLen(s, p3[2], AlnumSet) - 1)>>

\* <<the end of group 1, the start of group 2>> for the greedy match
AmountCurrencySplit(s, j, k) ==
    <<j + k, AmountCurrencyEnd(s, j + k + RunLen(s, j + k, SpaceSet))>>

\* _re_amount_currency anchored at i, j the position after Received:\s*
AmountCurrencyFrom(s, j) ==
    IF AmountLengths(s, j) = {} THEN <<>>
    ELSE AmountCurrencyGroups(s, j, AmountCurrencySplit(s, j, Greatest(AmountLengths(s, j))))

\* Received:\s*([\d.]+)\s*#?([A-Za-z0-9]{2,})
AmountCurrencyAt(s, ls, i) ==
    IF ~MatchAt(ls, i, sReceived) THEN <<>>
    ELSE AmountCurrencyFrom(s, i + Len(sReceived) + RunLen(s, i + Len(sReceived), SpaceSet))

re_amount_currency(s) ==
    FirstMatch([i \in 1..Len(s) |-> AmountCurrencyAt(s, Lower(s), i)])

\* the token after from\s+, j the position after "from"
FromToken(s, j, ws) ==
    IF ws >= 1 /\ RunLen(s, j + ws, CharSet \ {" ", "(", "|"}) >= 1
    THEN <<SubSeq(s, j + ws, j + ws + RunLen(s, j + ws, CharSet \ {" ", "(", "|"}) - 1)>>
    ELSE <<>>

\* _re_from_token anchored at i: \bfrom\s+([^\s\(\|]+)
FromTokenAt(s, ls, i) ==
    IF MatchAt(ls, i, sFrom) /\ (i = 1 \/ s[i - 1] \notin WordSet)
    THEN FromToken(s, i + Len(sFrom), RunLen(s, i + Len(sFrom), SpaceSet))
    ELSE <<>>

re_from_token(s) ==
    FirstMatch([i \in 1..Len(s) |-> FromTokenAt(s, Lower(s), i)])

\* _re_bscscan_addr and _re_etherscan_addr anchored at i:
\* <host>/address/(0x[a-fA-F0-9]{40})
HexAddrAt(s, ls, i, host) ==
    IF /\ MatchAt(ls, i, host)
       /\ MatchAt(ls, i + Len(host), s0x)
       /\ RunLen(s, i + Len(host) + 2, HexSet) >= 40
    THEN <<SubSeq(s, i + Len(host), i + Len(host) + 41)>> ELSE <<>>

re_bscscan_addr(s) ==
    FirstMatch([i \in 1..Len(s) |-> HexAddrAt(s, Lower(s), i, sBscscan)])

re_etherscan_addr(s) ==
    FirstMatch([i \in 1..Len(s) |-> HexAddrAt(s, Lower(s), i, sEtherscan)])

\* _re_tronscan_addr anchored at i: tronscan\.org/#/address/([A-Za-z0-9]{20,})
TronAddrAt(s, ls, i) ==
    IF MatchAt(ls, i, sTronscan) /\ RunLen(s, i + Len(sTronscan), AlnumSet) >= 20
    THEN <<SubSeq(s, i + Len(sTronscan),
                  i + Len(sTronscan) + RunLen(s, i + Len(sTronscan), AlnumSet) - 1)>>
    ELSE <<>>

re_tronscan_addr(s) ==
    FirstMatch([i \in 1..Len(s) |-> TronAddrAt(s, Lower(s), i)])

\* the alternatives of (bnb|tron|eth) that match at i + 1 before a \b
TagsAt(s, ls, i) ==
    {t \in {<<"b","n","b">>, <<"t","r","o","n">>, <<"e","t","h">>} :
        /\ MatchAt(ls, i + 1, t)
        /\ (i + Len(t) = Len(s) \/ s[i + 1 + Len(t)] \notin WordSet)}

\* _re_network_tag anchored at i: #(bnb|tron|eth)\b
NetworkTagAt(s, ls, i) ==
    IF s[i] = "#" /\ TagsAt(s, ls, i) # {}
    THEN <<SubSeq(s, i + 1, i + Len(CHOOSE t \in TagsAt(s, ls, i) : TRUE))>> ELSE <<>>

re_network_tag(s) ==
    FirstMatch([i \in 1..Len(s) |-> NetworkTagAt(s, Lower(s), i)])

-----------------------------------------------------------------------------
(* float(): the value of a decimal literal in hundredths, <<>> for a       *)
(* ValueError.  The model's amounts have at most two fractional digits.    *)

RECURSIVE DigitsValue(_)
DigitsValue(d) ==
    IF d = <<>> THEN 0
    ELSE 10 * DigitsValue(SubSeq(d, 1, Len(d) - 1)) + (IndexIn(Digits, d[Len(d)]) - 1)

Dots(g) == {i \in 1..Len(g) : g[i] = "."}

\* the value of the literal g with its one dot at position d
FloatAt(g, d) ==
    100 * DigitsValue(SubSeq(g, 1, d - 1)) + DigitsValue(SubSeq(g \o <<"0", "0">>, d + 1, d + 2))

float(g) ==
    IF Cardinality(Dots(g)) > 1 \/ Len(g) - Cardinality(Dots(g)) = 0 THEN <<>>
    ELSE IF Dots(g) = {} THEN <<100 * DigitsValue(g)>>
    ELSE <<FloatAt(g, CHOOSE i \in Dots(g) : TRUE)>>

-----------------------------------------------------------------------------
(* dict and defaultdict: a sequence of <<key, value>> pairs in insertion   *)
(* order, each key once.                                                   *)

EmptyDict == <<>>

\* d.keys(), in insertion order
DictKeys(d) == [i \in 1..Len(d) |-> d[i][1]]

KeySet(d) == {d[i][1] : i \in 1..Len(d)}

\* d[k] for a key d holds
DictGet(d, k) == d[CHOOSE i \in 1..Len(d) : d[i][1] = k][2]

\* d[k] = v: in place for a key d holds, appended for a new key
DictSet(d, k, v) ==
    IF k \in KeySet(d)
    THEN [i \in 1..Len(d) |-> IF d[i][1] = k THEN <<k, v>> ELSE d[i]]
    ELSE Append(d, <<k, v>>)

\* defaultdict.__getitem__: a missing key is inserted with the default
\* value and the dict changes; the result is <<dict after, value>>
DefaultGet(d, k, default) ==
    IF k \in KeySet(d) THEN <<d, DictGet(d, k)>>
    ELSE <<Append(d, <<k, default>>), default>>

-----------------------------------------------------------------------------
(* The parsing helpers of TransactionCalculator                            *)

\* a variant of HashtagOfLine that keeps the whitespace of the line as it is
HashtagUncollapsed(raw) ==
    LET line == Strip(raw)
    IN  IF Contains(Lower(line), sReceived) \/ Contains(Lower(line), sForwarded)
        THEN None
        ELSE IF ~StartsWith(line, <<"#">>) THEN None
        ELSE LET cut == IF Contains(line, <<"|">>) THEN Strip(BeforeBar(line)) ELSE line
             IN  IF /\ Split(cut) # <<>>
                    /\ Lower(cut) \notin simple_tags
                    /\ (Contains(cut, <<" ">>) \/ Len(cut) > 5)
                 THEN cut ELSE None

\* lines 67-87 of _extract_hashtag_from_text: what one line of the text
\* yields, None when the loop goes on to the next line.  The model's
\* alphabet is ASCII, so no line holds the Cyrillic word of line 69.
HashtagOfLine(raw) ==
    LET line == Strip(raw)
    IN  IF Contains(Lower(line), sReceived) \/ Contains(Lower(line), sForwarded)
        THEN None
        ELSE IF ~StartsWith(line, <<"#">>) THEN None
        ELSE LET cut     == IF Contains(line, <<"|">>) THEN Strip(BeforeBar(line)) ELSE line
                 parts   == Split(cut)
                 hashtag == Join(parts)
             IN  IF /\ parts # <<>>
                    /\ StartsWith(parts[1], <<"#">>)
                    /\ Lower(hashtag) \notin simple_tags
                    /\ (Contains(hashtag, <<" ">>) \/ Len(hashtag) > 5)
                 THEN hashtag ELSE None

\* _detect_network_from_hashtag
detect_network_from_hashtag(hashtag) ==
    LET h == Lower(hashtag)
    IN  IF Contains(h, <<"t","r","c","2","0">>) \/ Contains(h, <<"t","r","o","n">>) THEN TRON
        ELSE IF Contains(h, <<"b","n","b">>) THEN BSC
        ELSE IF Contains(h, <<"e","t","h">>) \/ Contains(h, <<"e","t","h","e","r","e","u","m">>) THEN ETH
        ELSE IF Contains(h, <<"b","t","c">>) \/ Contains(h, <<"b","i","t","c","o","i","n">>) THEN BTC
        ELSE IF Contains(h, <<"s","o","l">>) \/ Contains(h, <<"s","o","l","a","n","a">>) THEN SOL
        ELSE UNKNOWN

\* _detect_network_from_line
detect_network_from_line(line) ==
    IF re_tronscan_addr(line) # <<>> THEN TRON
    ELSE IF re_bscscan_addr(line) # <<>> THEN BSC
    ELSE IF re_etherscan_addr(line) # <<>> THEN ETH
    ELSE LET m == re_network_tag(line)
         IN  IF m = <<>> THEN UNKNOWN
             ELSE IF Lower(m[1]) = <<"t","r","o","n">> THEN TRON
             ELSE IF Lower(m[1]) = <<"b","n","b">> THEN BSC
             ELSE IF Lower(m[1]) = <<"e","t","h">> THEN ETH
             ELSE UNKNOWN

\* _extract_full_wallet_from_links: <<network, full_wallet>>
extract_full_wallet_from_links(line) ==
    IF re_tronscan_addr(line) # <<>> THEN <<TRON, re_tronscan_addr(line)[1]>>
    ELSE IF re_bscscan_addr(line) # <<>> THEN <<BSC, re_bscscan_addr(line)[1]>>
    ELSE IF re_etherscan_addr(line) # <<>> THEN <<ETH, re_etherscan_addr(line)[1]>>
    ELSE <<None, None>>

\* _extract_amount_currency: <<amount, currency>>, or <<>> for (None, None)
extract_amount_currency(line) ==
    LET m == re_amount_currency(line)
    IN  IF m = <<>> THEN <<>>
        ELSE IF float(m[1]) = <<>> THEN <<>>
        ELSE <<float(m[1])[1], Upper(m[2])>>

\* _extract_wallet_short
extract_wallet_short(line) ==
    LET m == re_from_token(line)
    IN  IF m = <<>> THEN None ELSE Strip(m[1])

-----------------------------------------------------------------------------
(* The lines of the model's texts                                          *)

\* the longest text, in lines
MaxLines == 3

\* add_transactions is called while total_transactions is below MaxTx
MaxTx == 2

lOscar ==
    <<"#","o","s","c","a","r"," "," ","m","a","x">>

lZed ==
    <<"#","Z","e","d"," ","x">>

lRecv ==
    <<" ","R","e","c","e","i","v","e","d",":"," ","5"," ","#","U","S","D","T",
      " ","f","r","o","m"," ","0","x","a","b">>

lRecvLink ==
    <<"r","e","c","e","i","v","e","d",":"," ","2",".","5","0"," ","#","t","r","x",
      " ","f","r","o","m"," ","T","X","a","b"," ","(",
      "t","r","o","n","s","c","a","n",".","o","r","g","/","#","/",
      "a","d","d","r","e","s","s","/",
      "T","X","a","b","0","1","2","3","4","5","6","7","8","9",
      "a","b","c","d","e","f","g","h",")">>

lLink ==
    <<"b","s","c","s","c","a","n",".","c","o","m","/","a","d","d","r","e","s","s","/",
      "0","x","0","0","1","1","2","2","3","3","4","4","5","5","6","6","7","7",
      "8","8","9","9","a","a","b","b","c","c","d","d","e","e","f","f",
      "0","0","1","1","2","2","3","3">>

lBadNumber ==
    <<"R","e","c","e","i","v","e","d",":"," ","1",".","2",".","3"," ","#","U","S","D","T",
      " ","f","r","o","m"," ","0","x","a","b">>

lOscarCap ==
    <<"#","O","s","c","a","r"," ","m","a","x">>

lBnb ==
    <<"#","b","n","b">>

lNoFrom ==
    <<"R","e","c","e","i","v","e","d",":"," ","7"," ","#","U","S","D","T">>

lRecvDoge ==
    <<"R","e","c","e","i","v","e","d",":"," ","3"," ","#","d","o","g","e"," ","f","r","o","m"," ","0","x","a","b">>

\* the lines of the texts of each specification
CoreLines == {lOscar, lRecv, lRecvLink, lLink}
MalformedLines == {lRecv, lBadNumber, lLink}
ReportLines == {lOscar, lZed, lRecv, lRecvLink}
PairLines == {lOscar, lRecv, lLink}
LabelLines == {lOscar, lOscarCap, lBnb, lRecv, lLink}

\* the lines of the calls whose report holds a currency without a rate
RateLines == {lOscar, lRecv, lRecvLink, lRecvDoge}

\* the lines of the calls whose transactions come with and without addresses
AddressLines == {lOscar, lRecv, lNoFrom, lLink, lRecvLink}

\* the lines of the messages the users send to the bot
BotLines == {lOscarCap, lZed, lRecv}

LineSet ==
    CoreLines \cup MalformedLines \cup ReportLines \cup PairLines \cup LabelLines
        \cup RateLines \cup AddressLines \cup BotLines

RECURSIVE SeqsUpTo(_, _)
SeqsUpTo(S, n) ==
    IF n = 0 THEN {<<>>}
    ELSE LET shorter == SeqsUpTo(S, n - 1)
         IN  shorter \cup {Append(t, x) : t \in {u \in shorter : Len(u) = n - 1}, x \in S}

\* the texts add_transactions is given
Texts ==
    SeqsUpTo(CoreLines, MaxLines) \cup SeqsUpTo(MalformedLines, MaxLines)
        \cup SeqsUpTo(ReportLines, MaxLines) \cup SeqsUpTo(PairLines, MaxLines)
        \cup SeqsUpTo(LabelLines, MaxLines) \cup SeqsUpTo(RateLines, MaxLines)
        \cup SeqsUpTo(AddressLines, MaxLines) \cup SeqsUpTo(BotLines, MaxLines)
        \cup {<<h>> \o text : h \in BotLines \ {lRecv}, text \in SeqsUpTo(BotLines, MaxLines)}

-----------------------------------------------------------------------------
(* What the helpers yield for each line, computed once                     *)

\* line = raw.strip() and what the loop of add_transactions asks of it
ParseStripped(line) ==
    [ line            |-> line,
      hashtag         |-> HashtagOfLine(line),
      hashtag_line    |-> StartsWith(line, <<"#">>) /\ ~Contains(line, <<"|">>),
      received        |-> Contains(Lower(line), sReceived),
      amount_currency |-> extract_amount_currency(line),
      wallet_short    |-> extract_wallet_short(line),
      link            |-> extract_full_wallet_from_links(line),
      network         |-> detect_network_from_line(line) ]

LineParse(raw) == ParseStripped(Strip(raw))

ParseTable == [raw \in LineSet |-> LineParse(raw)] @@ <<>>

\* the lines of a text, parsed
ParsedLines(text) == [i \in 1..Len(text) |-> ParseTable[text[i]]]

\* _extract_hashtag_from_text: the hashtag of the first line that has one
RECURSIVE extract_hashtag_from_text(_)
extract_hashtag_from_text(lines) ==
    IF lines = <<>> THEN None
    ELSE IF lines[1].hashtag # None THEN lines[1].hashtag
    ELSE extract_hashtag_from_text(Tail(lines))

-----------------------------------------------------------------------------
(* TransactionCalculator                                                   *)

\* __init__
NewCalculator ==
    [ transactions       |-> EmptyDict,
      total_transactions |-> 0,
      wallets_seen       |-> {} ]

\* a variant of AddAmount that assigns the amount where the code adds it
AssignAmount(transactions, hashtag_key, currency, amount) ==
    DictSet(DefaultGet(transactions, hashtag_key, EmptyDict)[1], hashtag_key,
            DictSet(DefaultGet(DefaultGet(transactions, hashtag_key, EmptyDict)[2],
                               currency, 0)[1], currency, amount))

\* self.transactions[hashtag_key][currency] += amount, on a defaultdict of
\* defaultdict(float)
AddAmount(transactions, hashtag_key, currency, amount) ==
    LET outer == DefaultGet(transactions, hashtag_key, EmptyDict)
        inner == DefaultGet(outer[2], currency, 0)
    IN  DictSet(outer[1], hashtag_key, DictSet(inner[1], currency, inner[2] + amount))

\* what add_transactions records for one transaction (lines 193-200 and
\* 247-250): the key, the currency, the amount and the wallet, with the
\* line of the text it came from
Entry(i, key, currency, amount, wallet) ==
    [line |-> i, key |-> key, currency |-> currency, amount |-> amount, wallet |-> wallet]

\* a variant of RecordEntry that counts the ledger keys where the code
\* counts the wallets
RecordEntryCountingLabels(self, e) ==
    [ transactions       |-> AddAmount(self.transactions, e.key, e.currency, e.amount),
      total_transactions |-> self.total_transactions + 1,
      wallets_seen       |-> self.wallets_seen \cup {e.key} ]

\* a variant of RecordEntry that puts the key of the transaction into the
\* set of addresses beside its wallet
RecordEntryTwoAddresses(self, e) ==
    [ transactions       |-> AddAmount(self.transactions, e.key, e.currency, e.amount),
      total_transactions |-> self.total_transactions + 1,
      wallets_seen       |-> self.wallets_seen \cup {e.wallet, e.key} ]

\* lines 193-194 and 198-200, lines 247-248 and 250: the updates of self
\* for one recorded transaction
RecordEntry(self, e) ==
    [ transactions       |-> AddAmount(self.transactions, e.key, e.currency, e.amount),
      total_transactions |-> self.total_transactions + 1,
      wallets_seen       |-> IF e.wallet # None
                             THEN self.wallets_seen \cup {e.wallet}
                             ELSE self.wallets_seen ]

\* wallet = pending.wallet_full or pending.wallet_short
\* a variant of WalletOf that keeps the token after 'from'
WalletShortFirst(pending) == pending.wallet_short

\* wallet = pending.wallet_full or pending.wallet_short
WalletOf(pending) ==
    IF pending.wallet_full # None THEN pending.wallet_full ELSE pending.wallet_short

\* hashtag_key of finalize_pending
PendingKey(pending) ==
    IF pending.hashtag # None THEN pending.hashtag ELSE <<"#">> \o pending.network

\* finalize_pending, on the local state st of a running add_transactions
finalize_pending(st) ==
    IF st.pending = <<>> THEN st
    ELSE LET pending == st.pending[1]
         IN  [st EXCEPT
                !.recorded = Append(@, Entry(pending.line, PendingKey(pending),
                                             pending.currency, pending.amount,
                                             WalletOf(pending))),
                !.added = @ + 1,
                !.pending = <<>>]

\* a variant of HashtagToUse that forgets the hashtag found in the whole text
CurrentHashtagOnly(current_hashtag, global_hashtag) == current_hashtag

\* hashtag_to_use = current_hashtag or global_hashtag
HashtagToUse(current_hashtag, global_hashtag) ==
    IF current_hashtag # None THEN current_hashtag ELSE global_hashtag

\* network of a Received line, lines 237-242
NetworkOf(network_from_hashtag, net_link, network_from_line) ==
    IF network_from_hashtag # None /\ network_from_hashtag # UNKNOWN THEN network_from_hashtag
    ELSE IF net_link # None THEN net_link
    ELSE network_from_line

\* a variant of HashtagLine that makes every line that starts with '#' the
\* current hashtag
HashtagLineAlways(st, p) ==
    [st EXCEPT !.current_hashtag = Join(Split(p.line)),
               !.network_from_hashtag = detect_network_from_hashtag(Join(Split(p.line)))]

\* a variant of HashtagLine that closes the pending transaction
HashtagLineFinalizing(st, p) ==
    IF p.hashtag # None
    THEN [finalize_pending(st) EXCEPT
             !.current_hashtag = p.hashtag,
             !.network_from_hashtag = detect_network_from_hashtag(p.hashtag)]
    ELSE finalize_pending(st)

\* lines 212-216: a line that starts with '#' and holds no '|'
HashtagLine(st, p) ==
    IF p.hashtag # None
    THEN [st EXCEPT !.current_hashtag = p.hashtag,
                    !.network_from_hashtag = detect_network_from_hashtag(p.hashtag)]
    ELSE st

\* hashtag_key of line 246
ReceivedKey(hashtag_to_use, network) ==
    IF hashtag_to_use # None THEN hashtag_to_use ELSE <<"#">> \o network

\* a variant of Received that keeps a line with no token after 'from'
ReceivedWithoutToken(st, p, i, hashtag_to_use, network) ==
    IF p.amount_currency = <<>> THEN st
    ELSE IF p.link[2] # None
    THEN [st EXCEPT
            !.recorded = Append(@, Entry(i, ReceivedKey(hashtag_to_use, network),
                                         p.amount_currency[2], p.amount_currency[1],
                                         p.link[2])),
            !.added = @ + 1,
            !.pending = <<>>]
    ELSE [st EXCEPT
            !.pending = << [ amount       |-> p.amount_currency[1],
                             currency     |-> p.amount_currency[2],
                             network      |-> network,
                             wallet_short |-> p.wallet_short,
                             wallet_full  |-> None,
                             hashtag      |-> hashtag_to_use,
                             line         |-> i ] >>]

\* lines 223-261: a line that holds 'received:' after finalize_pending(),
\* p the parsed line i of the text
Received(st, p, i, hashtag_to_use, network) ==
    IF p.amount_currency = <<>> THEN st
    ELSE IF p.wallet_short = None THEN st
    ELSE IF p.link[2] # None
    THEN [st EXCEPT
            !.recorded = Append(@, Entry(i, ReceivedKey(hashtag_to_use, network),
                                         p.amount_currency[2], p.amount_currency[1],
                                         p.link[2])),
            !.added = @ + 1,
            !.pending = <<>>]
    ELSE [st EXCEPT
            !.pending = << [ amount       |-> p.amount_currency[1],
                             currency     |-> p.amount_currency[2],
                             network      |-> network,
                             wallet_short |-> p.wallet_short,
                             wallet_full  |-> None,
                             hashtag      |-> hashtag_to_use,
                             line         |-> i ] >>]

\* a variant of ReceivedLine that does not close the pending transaction
ReceivedWithoutFinalize(st, p, i, global_hashtag) ==
    Received([st EXCEPT !.pending = <<>>], p, i,
             HashtagToUse(st.current_hashtag, global_hashtag),
             NetworkOf(st.network_from_hashtag, p.link[1], p.network))

\* lines 220-261: a line that holds 'received:'
ReceivedLine(st, p, i, global_hashtag) ==
    Received(finalize_pending(st), p, i,
             HashtagToUse(st.current_hashtag, global_hashtag),
             NetworkOf(st.network_from_hashtag, p.link[1], p.network))

\* a variant of OtherLine that reads the network of a line and never its link
OtherLineNetworkOnly(st, p) ==
    [st EXCEPT !.pending[1].network = IF @ = UNKNOWN THEN p.network ELSE @]

\* lines 264-274: any other line while a transaction is pending
OtherLine(st, p) ==
    IF p.link[2] # None
    THEN [st EXCEPT !.pending[1].wallet_full = p.link[2],
                    !.pending[1].network =
                        IF p.link[1] # None /\ @ = UNKNOWN THEN p.link[1] ELSE @]
    ELSE [st EXCEPT !.pending[1].network = IF @ = UNKNOWN THEN p.network ELSE @]

\* the body of the for loop of add_transactions, p the parsed line i
ProcessLine(st, p, i, global_hashtag) ==
    IF p.line = <<>> THEN st
    ELSE IF p.hashtag_line THEN HashtagLine(st, p)
    ELSE IF p.received THEN ReceivedLine(st, p, i, global_hashtag)
    ELSE IF st.pending # <<>> THEN OtherLine(st, p)
    ELSE st

RECURSIVE Loop(_, _, _, _)
Loop(st, lines, i, global_hashtag) ==
    IF i > Len(lines) THEN st
    ELSE Loop(ProcessLine(st, lines[i], i, global_hashtag), lines, i + 1, global_hashtag)

\* lines 170-178: the local variables before the loop
Locals(global_hashtag) ==
    [ added                |-> 0,
      pending              |-> <<>>,
      current_hashtag      |-> None,
      network_from_hashtag |->
          IF global_hashtag # None THEN detect_network_from_hashtag(global_hashtag) ELSE None,
      recorded             |-> <<>>,
      global_hashtag       |-> global_hashtag ]

\* a variant of LoopFrom without the finalize_pending() of line 277
LoopWithoutFinalize(st, lines) == Loop(st, lines, 1, st.global_hashtag)

\* lines 202-277 for the parsed lines of a text
LoopFrom(st, lines) == finalize_pending(Loop(st, lines, 1, st.global_hashtag))

\* lines 169-278 of add_transactions without the updates of self: the
\* local state when the call returns.  The loop reads nothing of self, so
\* the transactions it records are collected in order in st.recorded.
\* text.strip() removes white space that line.strip() and the empty-line
\* test remove again.
RunLines(lines) == LoopFrom(Locals(extract_hashtag_from_text(lines)), lines)

\* the lines the for loop takes as hashtag lines that set the current hashtag
IsLabelMarker(p) == p.hashtag_line /\ p.hashtag # None

\* a Received line with an amount, a currency and a token after "from"
IsAccepted(p) ==
    /\ p.line # <<>>
    /\ ~p.hashtag_line
    /\ p.received
    /\ p.amount_currency # <<>>
    /\ p.wallet_short # None

\* the index of the first label marker line of a text, 0 when it has none
FirstLabel(lines) ==
    IF \E i \in 1..Len(lines) : IsLabelMarker(lines[i])
    THEN Least({i \in 1..Len(lines) : IsLabelMarker(lines[i])}) ELSE 0

\* the bag of the transactions of a sequence of entries
RECURSIVE BagOf(_)
BagOf(entries) ==
    IF entries = <<>> THEN EmptyBag
    ELSE SetToBag({[ label    |-> entries[1].key,
                     currency |-> entries[1].currency,
                     amount   |-> entries[1].amount,
                     wallet   |-> entries[1].wallet ]}) (+) BagOf(Tail(entries))

\* a line that holds 'received:' and is not accepted
IsMalformed(p) ==
    /\ p.line # <<>>
    /\ ~p.hashtag_line
    /\ p.received
    /\ ~IsAccepted(p)

\* the lines at the positions I, in order
RECURSIVE Keep(_, _, _)
Keep(lines, I, i) ==
    IF i > Len(lines) THEN <<>>
    ELSE IF i \in I THEN <<lines[i]>> \o Keep(lines, I, i + 1)
    ELSE Keep(lines, I, i + 1)

\* what a call of add_transactions does with a text, with what the text
\* holds: the lines that are accepted, the lines that are malformed, its
\* first label marker, and what the call records for the text without its
\* malformed lines
RunParsed(lines) ==
    [ added          |-> RunLines(lines).added,
      recorded       |-> RunLines(lines).recorded,
      global_hashtag |-> RunLines(lines).global_hashtag,
      accepted       |-> {i \in 1..Len(lines) : IsAccepted(lines[i])},
      malformed      |-> {i \in 1..Len(lines) : IsMalformed(lines[i])},
      first_label    |-> FirstLabel(lines),
      clean          |-> BagOf(RunLines(Keep(lines, {i \in 1..Len(lines) : ~IsMalformed(lines[i])}, 1)).recorded) ]

RunOf(text) == RunParsed(ParsedLines(text))

\* RunOf for each text, computed once
AllRuns == [text \in Texts |-> RunOf(text)] @@ <<>>

\* one text of T for each distinct value of runs on T: two texts with the
\* same value take the calculator to the same state
Representatives(T, runs) ==
    LET pairs == {<<runs[t], t>> : t \in T}
    IN  {(CHOOSE p \in pairs : p[1] = r)[2] : r \in {p[1] : p \in pairs}}

CoreTexts == Representatives(SeqsUpTo(CoreLines, MaxLines), AllRuns)
MalformedTexts == Representatives(SeqsUpTo(MalformedLines, MaxLines), AllRuns)
ReportTexts == Representatives(SeqsUpTo(ReportLines, MaxLines), AllRuns)
PairTexts == Representatives(SeqsUpTo(PairLines, MaxLines), AllRuns)
RateTexts == Representatives(SeqsUpTo(RateLines, MaxLines), AllRuns)

RECURSIVE RecordAll(_, _)
RecordAll(self, recorded) ==
    IF recorded = <<>> THEN self
    ELSE RecordAll(RecordEntry(self, recorded[1]), Tail(recorded))

\* the updates of self by a run, and what the call returns
Record(self, run) == <<RecordAll(self, run.recorded), run.added>>

\* add_transactions: <<self after, added>>
add_transactions(self, text) == Record(self, AllRuns[text])

\* a variant of clear_all that keeps wallets_seen
ClearLedgerOnly(self) ==
    [ transactions       |-> EmptyDict,
      total_transactions |-> 0,
      wallets_seen       |-> self.wallets_seen ]

\* a variant of clear_all that keeps total_transactions
ClearKeepCounter(self) ==
    [ transactions       |-> EmptyDict,
      total_transactions |-> self.total_transactions,
      wallets_seen       |-> {} ]

\* clear_all
clear_all(self) ==
    [ transactions       |-> EmptyDict,
      total_transactions |-> 0,
      wallets_seen       |-> {} ]

\* get_status: <<self after, the result>>; the result None is <<>>
get_status(self) ==
    IF Len(self.transactions) = 0 THEN <<self, <<>>>>
    ELSE <<self, << [ wallet_count      |-> Cardinality(self.wallets_seen),
                      transaction_count |-> self.total_transactions ] >> >>

-----------------------------------------------------------------------------
(* get_total_report.  The report is the sequence of its lines (what        *)
(* "\n".join receives); a line is a sequence of characters, and a literal  *)
(* of the code that is not ASCII is one element naming it.                 *)

\* str(n) for n >= 0
RECURSIVE IntToStr(_)
IntToStr(n) ==
    IF n < 10 THEN <<Digits[n + 1]>>
    ELSE IntToStr(n \div 10) \o <<Digits[(n % 10) + 1]>>

\* f"{x:.2f}" for x >= 0 counted in hundredths
Format2f(x) ==
    IntToStr(x \div 100) \o <<".">> \o <<Digits[((x % 100) \div 10) + 1], Digits[(x % 10) + 1]>>

\* a value counted in 1/10000 rounded to hundredths, ties to even
RoundToHundredths(y) ==
    LET q == y \div 100
        r == y % 100
    IN  IF r > 50 \/ (r = 50 /\ q % 2 = 1) THEN q + 1 ELSE q

sNoTransactions == <<"[Net tranzakcij dlya otchyota.]">>
sSeparator == [i \in 1..40 |-> "-"]
sStatistics == <<"[OBSHCHAYA STATISTIKA:]">>
sWallets == <<"[Koshelkov: ]">>
sTransactions == <<"[Tranzakcij: ]">>
sTotal == <<"[Obshchaya summa: $]">>
sUSD == <<" ","U","S","D">>

\* a variant of SortedKeys that keeps the insertion order of the dict
InsertionOrderKeys(d) == DictKeys(d)

\* sorted(d.keys())
SortedKeys(d) == Sorted(KeySet(d))

\* a variant of CurrencyLines that counts a currency without a rate at the
\* rate 1.0
RECURSIVE CurrencyLinesDefaultRate(_, _)
CurrencyLinesDefaultRate(acc, curs) ==
    IF curs = <<>> THEN acc
    ELSE LET got == DefaultGet(acc.currencies, curs[1], 0)
         IN  CurrencyLinesDefaultRate(
                 [ currencies |-> got[1],
                   report     |-> Append(acc.report, Format2f(got[2]) \o <<" ">> \o curs[1]),
                   hashtag_total_usd |->
                       acc.hashtag_total_usd
                           + got[2] * (IF curs[1] \in DOMAIN rates THEN rates[curs[1]] ELSE 100) ],
                 Tail(curs))

\* lines 312-316: the currency lines of one hashtag; acc is
\* [currencies, report, hashtag_total_usd], the usd total in 1/10000
RECURSIVE CurrencyLines(_, _)
CurrencyLines(acc, curs) ==
    IF curs = <<>> THEN acc
    ELSE LET cur == curs[1]
             got == DefaultGet(acc.currencies, cur, 0)
             amt == got[2]
         IN  CurrencyLines(
                 [ currencies |-> got[1],
                   report     |-> Append(acc.report, Format2f(amt) \o <<" ">> \o cur),
                   hashtag_total_usd |->
                       IF cur \in DOMAIN rates
                       THEN acc.hashtag_total_usd + amt * rates[cur]
                       ELSE acc.hashtag_total_usd ],
                 Tail(curs))

\* lines 304-318: the blocks of the hashtags; acc is
\* [transactions, report, total_all_usd]
RECURSIVE HashtagBlocks(_, _)
HashtagBlocks(acc, hashtags) ==
    IF hashtags = <<>> THEN acc
    ELSE LET hashtag == hashtags[1]
             got     == DefaultGet(acc.transactions, hashtag, EmptyDict)
             block   == CurrencyLines(
                            [ currencies |-> got[2],
                              report     |-> Append(acc.report, hashtag),
                              hashtag_total_usd |-> 0 ],
                            SortedKeys(got[2]))
         IN  HashtagBlocks(
                 [ transactions  |-> DictSet(got[1], hashtag, block.currencies),
                   report        |-> block.report,
                   total_all_usd |-> acc.total_all_usd + block.hashtag_total_usd ],
                 Tail(hashtags))

\* a variant of get_total_report that resets the calculator
report_and_reset(self) ==
    << [ transactions |-> EmptyDict, total_transactions |-> 0, wallets_seen |-> {} ],
       <<sNoTransactions>> >>

\* get_total_report: <<self after, the report>>
get_total_report(self) ==
    IF Len(self.transactions) = 0 THEN <<self, <<sNoTransactions>>>>
    ELSE LET blocks == HashtagBlocks(
                           [ transactions  |-> self.transactions,
                             report        |-> <<>>,
                             total_all_usd |-> 0 ],
                           SortedKeys(self.transactions))
         IN  << [self EXCEPT !.transactions = blocks.transactions],
                blocks.report \o
                << sSeparator,
                   sStatistics,
                   sWallets \o IntToStr(Cardinality(self.wallets_seen)),
                   sTransactions \o IntToStr(self.total_transactions),
                   sTotal \o Format2f(RoundToHundredths(blocks.total_all_usd)) \o sUSD >> >>

-----------------------------------------------------------------------------
(* The calls the message layer makes on one calculator                     *)

\* the users that write to the bot
Users == {"u1", "u2"}

\* TransactionBot.__init__: no hashtag is saved for any user (None stands
\* for a user_id that is not a key of last_hashtag) and no handler awaits
NewBot ==
    [ last_hashtag |-> [u \in Users |-> None],
      awaiting     |-> [u \in Users |-> <<>>] ]

\* what a user sent since the user's own last /clear or /finish_count: the
\* label of the last label marker line of any of the user's messages, and
\* the label of the last label marker line of the user's messages without
\* a Received line
NewSession == [seen |-> None, seen_alone |-> None]

Init ==
    /\ calculator = NewCalculator
    /\ last = [op |-> "init"]
    /\ history = EmptyBag
    /\ fresh = [calculator |-> NewCalculator, cleared |-> FALSE]
    /\ other = NewCalculator
    /\ other_history = EmptyBag
    /\ bot = NewBot
    /\ sessions = [u \in Users |-> NewSession]

\* what a call of add_transactions leaves: call is <<self after, added>>,
\* shadow the same call on the calculator constructed at the last clear_all
Added(call, shadow, run) ==
    /\ calculator' = call[1]
    /\ history' = history (+) BagOf(run.recorded)
    /\ fresh' = [fresh EXCEPT !.calculator = shadow[1]]
    /\ last' = [ op             |-> "add_transactions",
                 ret            |-> call[2],
                 recorded       |-> run.recorded,
                 total_before   |-> calculator.total_transactions,
                 accepted       |-> run.accepted,
                 malformed      |-> run.malformed,
                 first_label    |-> run.first_label,
                 global_hashtag |-> run.global_hashtag,
                 clean          |-> run.clean,
                 fresh_ret      |-> shadow[2] ]

\* a message whose text is one of T reaches add_transactions
AddTransactions(T) ==
    \E text \in T :
        /\ calculator.total_transactions < MaxTx
        /\ Added(add_transactions(calculator, text),
                 add_transactions(fresh.calculator, text), AllRuns[text])
        /\ UNCHANGED <<other, other_history, bot, sessions>>

ClearAll ==
    /\ calculator' = clear_all(calculator)
    /\ history' = EmptyBag
    /\ fresh' = [calculator |-> NewCalculator,
                 cleared |-> fresh.cleared \/ calculator.total_transactions > 0]
    /\ last' = [op |-> "clear_all", total_before |-> calculator.total_transactions]
    /\ UNCHANGED <<other, other_history, bot, sessions>>

GetStatus ==
    /\ calculator' = get_status(calculator)[1]
    /\ fresh' = [fresh EXCEPT !.calculator = get_status(@)[1]]
    /\ last' = [ op           |-> "get_status",
                 ret          |-> get_status(calculator)[2],
                 total_before |-> calculator.total_transactions ]
    /\ UNCHANGED <<history, other, other_history, bot, sessions>>

GetTotalReport ==
    /\ calculator' = get_total_report(calculator)[1]
    /\ fresh' = [fresh EXCEPT !.calculator = get_total_report(@)[1]]
    /\ last' = [ op           |-> "get_total_report",
                 ret          |-> get_total_report(calculator)[2],
                 total_before |-> calculator.total_transactions ]
    /\ UNCHANGED <<history, other, other_history, bot, sessions>>

AddCore == AddTransactions(CoreTexts)

Next == AddCore \/ ClearAll \/ GetStatus \/ GetTotalReport

Spec == Init /\ [][Next]_vars

\* the same calls with the texts of MalformedLines
AddMalformed == AddTransactions(MalformedTexts)

NextMalformed == AddMalformed \/ ClearAll \/ GetStatus \/ GetTotalReport

SpecMalformed == Init /\ [][NextMalformed]_vars

\* the same calls with the texts of ReportLines
AddReport == AddTransactions(ReportTexts)

NextReport == AddReport \/ ClearAll \/ GetStatus \/ GetTotalReport

SpecReport == Init /\ [][NextReport]_vars

\* the calls whose amounts are in currencies with and without a rate
AddRates == AddTransactions(RateTexts)

NextRates == AddRates \/ ClearAll \/ GetTotalReport

SpecRates == Init /\ [][NextRates]_vars

\* two calculators, each given its own texts of PairLines
AddLeft ==
    \E text \in PairTexts :
        /\ calculator.total_transactions < MaxTx
        /\ calculator' = add_transactions(calculator, text)[1]
        /\ history' = history (+) BagOf(AllRuns[text].recorded)
        /\ UNCHANGED <<last, fresh, other, other_history, bot, sessions>>

AddRight ==
    \E text \in PairTexts :
        /\ other.total_transactions < MaxTx
        /\ other' = add_transactions(other, text)[1]
        /\ other_history' = other_history (+) BagOf(AllRuns[text].recorded)
        /\ UNCHANGED <<last, fresh, calculator, history, bot, sessions>>

NextPair == AddLeft \/ AddRight

SpecPair == Init /\ [][NextPair]_vars

\* the lines of a text the loop of add_transactions takes as Received lines
ReceivedRows(lines) ==
    {i \in 1..Len(lines) :
        lines[i].line # <<>> /\ ~lines[i].hashtag_line /\ lines[i].received}

\* the greatest row of S before row i, 0 when there is none
RowBefore(S, i) ==
    IF \E j \in S : j < i THEN Greatest({j \in S : j < i}) ELSE 0

\* the least row of S after row i, n + 1 when there is none
RowAfter(S, i, n) ==
    IF \E j \in S : j > i THEN Least({j \in S : j > i}) ELSE n + 1

\* the rows of a text that begin with '#', and those that are label markers
SharpRows(lines) == {i \in 1..Len(lines) : StartsWith(lines[i].line, <<"#">>)}
MarkerRows(lines) == {i \in 1..Len(lines) : IsLabelMarker(lines[i])}

\* the rows from row a to row b that hold an explorer link and that the loop
\* reads as other lines
LinkRows(lines, a, b) ==
    {j \in a..b :
        /\ lines[j].line # <<>> /\ ~lines[j].hashtag_line /\ ~lines[j].received
        /\ lines[j].link[2] # None}

\* what a text holds for its Received line i: the line that begins with '#'
\* and the label marker nearest before it, what the helpers extract of it,
\* the first label marker after it and before the next Received line, and
\* the explorer links of the lines after it, up to the next Received line
\* and up to the next Received line or label marker
FactsOf(lines, i) ==
    [ sharp        |-> IF RowBefore(SharpRows(lines), i) = 0 THEN None
                       ELSE lines[RowBefore(SharpRows(lines), i)].line,
      marker       |-> IF RowBefore(MarkerRows(lines), i) = 0 THEN None
                       ELSE lines[RowBefore(MarkerRows(lines), i)].line,
      marker_after |-> IF RowAfter(MarkerRows(lines), i, Len(lines))
                              < RowAfter(ReceivedRows(lines), i, Len(lines))
                       THEN lines[RowAfter(MarkerRows(lines), i, Len(lines))].line
                       ELSE None,
      amount_currency |-> lines[i].amount_currency,
      wallet_short |-> lines[i].wallet_short,
      link         |-> lines[i].link[2],
      links        |-> [j \in LinkRows(lines, i + 1,
                                       RowAfter(ReceivedRows(lines), i, Len(lines)) - 1)
                           |-> lines[j].link[2]],
      links_to_marker |->
                       [j \in LinkRows(lines, i + 1,
                                       RowAfter(ReceivedRows(lines) \cup MarkerRows(lines),
                                                i, Len(lines)) - 1)
                           |-> lines[j].link[2]] ]

Facts(lines) == [i \in ReceivedRows(lines) |-> FactsOf(lines, i)]

\* RunOf and Facts for each text, computed once
AllFacts == [text \in Texts |-> <<AllRuns[text], Facts(ParsedLines(text))>>] @@ <<>>

\* a message whose text is one of T reaches add_transactions of a
\* calculator that holds fewer than room transactions; the facts of the text
\* are kept with what the call returned
AddText(T, room) ==
    \E text \in T :
        /\ calculator.total_transactions < room
        /\ calculator' = add_transactions(calculator, text)[1]
        /\ history' = history (+) BagOf(AllRuns[text].recorded)
        /\ fresh' = [fresh EXCEPT !.calculator = add_transactions(@, text)[1]]
        /\ last' = [ op             |-> "add_transactions",
                     facts          |-> AllFacts[text][2],
                     ret            |-> AllFacts[text][1].added,
                     recorded       |-> AllFacts[text][1].recorded,
                     total_before   |-> calculator.total_transactions,
                     wallets_before |-> calculator.wallets_seen ]
        /\ UNCHANGED <<other, other_history, bot, sessions>>

\* the calls with the texts of LabelLines
LabelTexts == Representatives(SeqsUpTo(LabelLines, MaxLines), AllFacts)

AddLabels == AddText(LabelTexts, MaxTx)

\* the calls with the texts of AddressLines, each on an empty calculator
AddressTexts == Representatives(SeqsUpTo(AddressLines, MaxLines), AllFacts)

AddAddresses == AddText(AddressTexts, 1)

NextAddresses == AddAddresses \/ ClearAll

SpecAddresses == Init /\ [][NextAddresses]_vars

NextLabels == AddLabels \/ ClearAll

SpecLabels == Init /\ [][NextLabels]_vars

-----------------------------------------------------------------------------
(* TransactionBot                                                          *)
(* One calculator serves every user; last_hashtag is kept for each user.   *)
(* A handler is a coroutine: it runs without interruption up to an await,  *)
(* and each handler awaits once, the reply_text that ends it.  The actions *)
(* below are the handlers up to that await; Reply is the await returning.  *)
(* Handlers of different users interleave at the awaits (the polling loop  *)
(* of the library, when it handles one update at a time, allows fewer      *)
(* interleavings than these).                                              *)

\* lines 410-417 of _handle_text: the hashtag of the last line of the
\* message that starts with '#' and gives one
RECURSIVE SavedHashtag(_, _)
SavedHashtag(saved, lines) ==
    IF lines = <<>> THEN saved
    ELSE SavedHashtag(IF lines[1].hashtag # None THEN lines[1].hashtag ELSE saved,
                      Tail(lines))

\* has_received of line 405
HasReceived(lines) == \E i \in 1..Len(lines) : lines[i].received

\* lines 429-431 of _handle_text: the text that reaches add_transactions
TextToAdd(saved, hashtag, text) ==
    IF saved # None /\ hashtag = None THEN <<saved>> \o text ELSE text

\* a variant of handle_text that saves the hashtag of every message
handle_text_saving(calc, saved, text) ==
    LET lines   == ParsedLines(text)
        hashtag == extract_hashtag_from_text(lines)
    IN  IF hashtag # None /\ ~HasReceived(lines)
        THEN [ calculator |-> calc,
               saved      |-> SavedHashtag(saved, lines),
               recorded   |-> <<>>,
               reply      |-> [kind |-> "saved", hashtag |-> SavedHashtag(saved, lines)] ]
        ELSE LET call == add_transactions(calc, TextToAdd(saved, hashtag, text))
             IN  [ calculator |-> call[1],
                   saved      |-> SavedHashtag(saved, lines),
                   recorded   |-> AllRuns[TextToAdd(saved, hashtag, text)].recorded,
                   reply      |->
                       IF call[2] > 0
                       THEN [kind |-> "added", added |-> call[2],
                             status |-> get_status(call[1])[2]]
                       ELSE [kind |-> "unrecognized"] ]

\* _handle_text up to its await, for a user whose saved hashtag is saved:
\* the calculator and the saved hashtag after, the transactions recorded
\* and the reply
handle_text(calc, saved, text) ==
    LET lines   == ParsedLines(text)
        hashtag == extract_hashtag_from_text(lines)
    IN  IF hashtag # None /\ ~HasReceived(lines)
        THEN [ calculator |-> calc,
               saved      |-> SavedHashtag(saved, lines),
               recorded   |-> <<>>,
               reply      |-> [kind |-> "saved", hashtag |-> SavedHashtag(saved, lines)] ]
        ELSE LET call == add_transactions(calc, TextToAdd(saved, hashtag, text))
             IN  [ calculator |-> call[1],
                   saved      |-> saved,
                   recorded   |-> AllRuns[TextToAdd(saved, hashtag, text)].recorded,
                   reply      |->
                       IF call[2] > 0
                       THEN [kind |-> "added", added |-> call[2],
                             status |-> get_status(call[1])[2]]
                       ELSE [kind |-> "unrecognized"] ]

\* _status up to its await: the reply
status(calc) ==
    IF get_status(calc)[2] = None THEN [kind |-> "no_status"]
    ELSE [kind |-> "status", status |-> get_status(calc)[2]]

\* a variant of finish that clears before it makes the report
finish_clear_first(calc) ==
    IF Len(calc.transactions) = 0
    THEN [calculator |-> calc, finished |-> FALSE, reply |-> [kind |-> "no_transactions"]]
    ELSE [ calculator |-> clear_all(calc),
           finished   |-> TRUE,
           reply      |-> [kind |-> "report",
                           report |-> get_total_report(clear_all(calc))[2]] ]

\* _finish up to its await: the calculator after, whether the report was
\* made, and the reply
finish(calc) ==
    IF Len(calc.transactions) = 0
    THEN [calculator |-> calc, finished |-> FALSE, reply |-> [kind |-> "no_transactions"]]
    ELSE [ calculator |-> clear_all(get_total_report(calc)[1]),
           finished   |-> TRUE,
           reply      |-> [kind |-> "report", report |-> get_total_report(calc)[2]] ]

\* what decides the outcome of a message: what add_transactions makes of it
\* with and without a saved hashtag before it, and what _handle_text reads
BotFacts ==
    [ text \in SeqsUpTo(BotLines, MaxLines) |->
        << AllRuns[text].recorded,
           [h \in BotLines \ {lRecv} |-> AllRuns[<<h>> \o text].recorded],
           extract_hashtag_from_text(ParsedLines(text)),
           HasReceived(ParsedLines(text)),
           SavedHashtag(None, ParsedLines(text)) >> ] @@ <<>>

BotTexts == Representatives(SeqsUpTo(BotLines, MaxLines), BotFacts)

\* the handler of user has reached its await; the kind of the reply it
\* holds stands for the reply
Awaiting(user, reply) == [bot.awaiting EXCEPT ![user] = <<reply.kind>>]

\* a message of user with the text reaches _handle_text
HandleTextOf(user, text, done) ==
    /\ calculator' = done.calculator
    /\ bot' = [ last_hashtag |-> [bot.last_hashtag EXCEPT ![user] = done.saved],
                awaiting     |-> Awaiting(user, done.reply) ]
    /\ history' = history (+) BagOf(done.recorded)
    /\ sessions' = [sessions EXCEPT
                       ![user].seen = SavedHashtag(@, ParsedLines(text)),
                       ![user].seen_alone =
                           IF HasReceived(ParsedLines(text)) THEN @
                           ELSE SavedHashtag(@, ParsedLines(text))]
    /\ last' = [ op           |-> "_handle_text",
                 user         |-> user,
                 keys         |-> {done.recorded[n].key : n \in 1..Len(done.recorded)},
                 marked       |-> SavedHashtag(None, ParsedLines(text)) # None,
                 seen_before  |-> sessions[user].seen,
                 alone_before |-> sessions[user].seen_alone,
                 status_before |-> status(calculator) ]
    /\ UNCHANGED <<fresh, other, other_history>>

HandleText ==
    \E user \in Users, text \in BotTexts :
        /\ bot.awaiting[user] = <<>>
        /\ calculator.total_transactions < MaxTx
        /\ HandleTextOf(user, text, handle_text(calculator, bot.last_hashtag[user], text))

\* /status of user reaches _status
Status ==
    \E user \in Users :
        /\ bot.awaiting[user] = <<>>
        /\ bot' = [bot EXCEPT !.awaiting = Awaiting(user, status(calculator))]
        /\ calculator' = get_status(calculator)[1]
        /\ last' = [op |-> "_status", user |-> user]
        /\ UNCHANGED <<history, fresh, sessions, other, other_history>>

\* /clear of user reaches _clear
Clear ==
    \E user \in Users :
        /\ bot.awaiting[user] = <<>>
        /\ calculator' = clear_all(calculator)
        /\ bot' = [ last_hashtag |-> [bot.last_hashtag EXCEPT ![user] = None],
                    awaiting     |-> Awaiting(user, [kind |-> "cleared"]) ]
        /\ history' = EmptyBag
        /\ sessions' = [sessions EXCEPT ![user] = NewSession]
        /\ last' = [op |-> "_clear", user |-> user, status_before |-> status(calculator)]
        /\ UNCHANGED <<fresh, other, other_history>>

\* /finish_count of user reaches _finish
FinishOf(user, done) ==
    /\ calculator' = done.calculator
    /\ bot' = [ last_hashtag |-> IF done.finished
                                 THEN [bot.last_hashtag EXCEPT ![user] = None]
                                 ELSE bot.last_hashtag,
                awaiting     |-> Awaiting(user, done.reply) ]
    /\ history' = IF done.finished THEN EmptyBag ELSE history
    /\ sessions' = IF done.finished THEN [sessions EXCEPT ![user] = NewSession]
                   ELSE sessions
    /\ last' = [ op |-> "_finish", user |-> user, finished |-> done.finished,
                 reply |-> done.reply, wiped |-> history,
                 status_before |-> status(calculator) ]
    /\ UNCHANGED <<fresh, other, other_history>>

Finish ==
    \E user \in Users :
        /\ bot.awaiting[user] = <<>>
        /\ FinishOf(user, finish(calculator))

\* the reply_text a handler of user awaits returns and the handler ends
Reply ==
    \E user \in Users :
        /\ bot.awaiting[user] # <<>>
        /\ bot' = [bot EXCEPT !.awaiting[user] = <<>>]
        /\ last' = [op |-> "reply_text", user |-> user]
        /\ UNCHANGED <<calculator, history, fresh, sessions, other, other_history>>

NextBot == HandleText \/ Status \/ Clear \/ Finish \/ Reply

SpecBot == Init /\ [][NextBot]_vars

-----------------------------------------------------------------------------
(* The properties of the calculator.  last is what the latest call was     *)
(* given and returned; history is the bag of the transactions recorded     *)
(* since the latest clear_all; fresh.calculator is a calculator            *)
(* constructed at the latest clear_all and given the same calls since.     *)

Networks == {TRON, BSC, ETH, BTC, SOL, UNKNOWN}

\* the lines of the latest text that are accepted and stand before its
\* first label marker
EarlyLines ==
    {i \in last.accepted : last.first_label = 0 \/ i < last.first_label}

\* the entries add_transactions recorded for line i of the latest text
RecordedFor(i) ==
    {k \in 1..Len(last.recorded) : last.recorded[k].line = i}

\* C1 as the spec states it: when the text has a label marker, no
\* transaction is recorded for a line before the first one, and the
\* returned number counts only the accepted lines after it.
C1_EarlyLinesDropped ==
    (last.op = "add_transactions" /\ last.first_label > 0) =>
        /\ \A k \in 1..Len(last.recorded) : last.recorded[k].line > last.first_label
        /\ last.ret = Cardinality({i \in last.accepted : i > last.first_label})

\* C1, amended: an accepted Received line before the first label marker of
\* the text is recorded once and counted: under the first hashtag of the
\* whole text when the text has one, and under "#" and a network name when
\* it has none.
C1_EarlyLinesRecorded ==
    last.op = "add_transactions" =>
        /\ \A i \in EarlyLines :
              /\ Cardinality(RecordedFor(i)) = 1
              /\ \A k \in RecordedFor(i) :
                    IF last.global_hashtag # None
                    THEN last.recorded[k].key = last.global_hashtag
                    ELSE last.recorded[k].key \in {<<"#">> \o n : n \in Networks}
        /\ last.ret >= Cardinality(EarlyLines)

\* C1: a text whose first label marker comes after an accepted line
C1_Witness ==
    /\ last.op = "add_transactions"
    /\ last.first_label > 1
    /\ \E i \in last.accepted : i < last.first_label
    /\ last.ret > 0

\* the sum of the amounts of the entries S of the bag B
RECURSIVE SumAmounts(_, _)
SumAmounts(B, S) ==
    IF S = {} THEN 0
    ELSE LET e == CHOOSE x \in S : TRUE
         IN  e.amount * B[e] + SumAmounts(B, S \ {e})

\* the transactions of the bag B recorded under a label and a currency
Under(B, label, currency) ==
    {e \in BagToSet(B) : e.label = label /\ e.currency = currency}

\* the ledger total of self for a label and a currency, <<>> when the
\* ledger holds none
LedgerTotal(self, label, currency) ==
    IF label \notin KeySet(self.transactions) THEN <<>>
    ELSE IF currency \notin KeySet(DictGet(self.transactions, label)) THEN <<>>
    ELSE <<DictGet(DictGet(self.transactions, label), currency)>>

\* the labels and the currencies of a ledger and of a bag of transactions
LedgerPairs(self) ==
    UNION {{<<k, c>> : c \in KeySet(DictGet(self.transactions, k))} :
              k \in KeySet(self.transactions)}

BagPairs(B) == {<<e.label, e.currency>> : e \in BagToSet(B)}

\* C2: the ledger holds a total exactly for the labels and currencies of the
\* transactions recorded since the last clear_all, and each total is the sum
\* of the amounts of those transactions (a sum over a bag: their order does
\* not matter).
C2_TotalsAreSums ==
    /\ LedgerPairs(calculator) = BagPairs(history)
    /\ \A lc \in BagPairs(history) :
          LedgerTotal(calculator, lc[1], lc[2])
              = <<SumAmounts(history, Under(history, lc[1], lc[2]))>>

\* C2: a total that is the sum of several transactions, after a clear_all
\* that emptied a ledger
C2_Witness ==
    /\ fresh.cleared
    /\ \E lc \in BagPairs(history) :
          /\ BagCardinality([e \in Under(history, lc[1], lc[2]) |-> history[e]]) >= 2
          /\ LedgerTotal(calculator, lc[1], lc[2]) # <<>>

\* C3: after clear_all get_status returns None, and once a ledger was
\* cleared every add_transactions returns what it returns on the calculator
\* constructed at the clear_all, and status and report are the same on both.
C3_ClearedIsFresh ==
    /\ last.op = "clear_all" => get_status(calculator)[2] = None
    /\ fresh.cleared =>
          /\ last.op = "add_transactions" => last.ret = last.fresh_ret
          /\ get_status(calculator)[2] = get_status(fresh.calculator)[2]
          /\ get_total_report(calculator)[2] = get_total_report(fresh.calculator)[2]

\* C3: transactions added after a clear_all that emptied a ledger
C3_Witness ==
    /\ fresh.cleared
    /\ last.op = "add_transactions"
    /\ last.ret > 0
    /\ get_status(calculator)[2] # None

\* C4: add_transactions returns the growth of total_transactions, which is
\* the number of accepted lines of the text, each recorded exactly once; and
\* no call but clear_all lowers total_transactions.
C4_ReturnsGrowth ==
    /\ last.op = "add_transactions" =>
          /\ last.ret = calculator.total_transactions - last.total_before
          /\ last.ret = Cardinality(last.accepted)
          /\ \A i \in 1..(Len(last.recorded) + MaxLines) :
                Cardinality(RecordedFor(i)) = (IF i \in last.accepted THEN 1 ELSE 0)
    /\ last.op \in {"add_transactions", "get_status", "get_total_report"} =>
          calculator.total_transactions >= last.total_before

\* C4: a text of which one line is recorded at once and another when its
\* pending entry is finalized at the end of the text
C4_Witness ==
    /\ last.op = "add_transactions"
    /\ last.ret >= 2
    /\ Len(last.recorded) >= 1
    /\ last.recorded[Len(last.recorded)].wallet = <<"0","x","a","b">>
    /\ \E k \in 1..Len(last.recorded) : Len(last.recorded[k].wallet) >= 20

\* the currencies and amounts of a bag of transactions
RECURSIVE AmountsOf(_, _)
AmountsOf(B, S) ==
    IF S = {} THEN EmptyBag
    ELSE LET e == CHOOSE x \in S : TRUE
         IN  [x \in {<<e.currency, e.amount>>} |-> B[e]] (+) AmountsOf(B, S \ {e})

\* C5 as the spec states it: a malformed Received line is without effect on
\* what is recorded: the call records what it records for the text without
\* its malformed lines.
C5_MalformedLinesWithoutEffect ==
    last.op = "add_transactions" => BagOf(last.recorded) = last.clean

\* what add_transactions keeps whatever malformed lines the text holds: the
\* number it returns is the number of accepted lines, and the currencies and
\* amounts it records are those it records for the text without them
C5_CountAndAmountsKept ==
    last.op = "add_transactions" =>
        /\ last.ret = Cardinality(last.accepted)
        /\ Len(last.recorded) = BagCardinality(last.clean)
        /\ AmountsOf(BagOf(last.recorded), BagToSet(BagOf(last.recorded)))
              = AmountsOf(last.clean, BagToSet(last.clean))

\* a call of add_transactions with a text that holds no accepted line
\* returns 0 and leaves the calculator as it was
C5_NothingAccepted ==
    (last'.op = "add_transactions" /\ last'.accepted = {}) =>
        /\ last'.ret = 0
        /\ calculator' = calculator

\* C5, amended: a text without an accepted line returns 0 and changes
\* nothing, and malformed Received lines change neither the number of
\* recorded transactions nor their currencies and amounts.  (A malformed
\* Received line still closes the pending transaction, so the label and the
\* wallet of that transaction are not part of the statement.)
C5_MalformedLinesSkipped ==
    []C5_CountAndAmountsKept /\ [][C5_NothingAccepted]_vars

\* C5: a malformed Received line between an accepted line and the link that
\* would have completed it, on a ledger that holds transactions
C5_Witness ==
    /\ last.op = "add_transactions"
    /\ last.total_before > 0
    /\ \E i \in last.accepted, j \in last.malformed : i < j
    /\ BagOf(last.recorded) # last.clean

\* C6: a call of get_status or of get_total_report leaves transactions (its
\* keys, their order and the totals), total_transactions and wallets_seen
\* as they were.
C6_ReadOnly ==
    [][last'.op \in {"get_status", "get_total_report"} => calculator' = calculator]_vars

\* C6: a report rendered of a ledger that holds several labels
C6_Witness ==
    /\ last.op = "get_total_report"
    /\ Len(calculator.transactions) >= 2
    /\ calculator.total_transactions >= 2

\* the line of a report that starts with a prefix, without the prefix
ReportField(report, prefix) ==
    LET i == CHOOSE k \in 1..Len(report) : StartsWith(report[k], prefix)
    IN  SubSeq(report[i], Len(prefix) + 1, Len(report[i]))

\* C7: get_status returns None and get_total_report the sentinel exactly
\* when no transaction was recorded since the last clear_all; otherwise both
\* show the number of the transactions recorded since.
C7_EmptyOrCount ==
    /\ get_status(calculator)[2] = None <=> history = EmptyBag
    /\ get_total_report(calculator)[2] = <<sNoTransactions>> <=> history = EmptyBag
    /\ history # EmptyBag =>
          /\ get_status(calculator)[2][1].transaction_count = BagCardinality(history)
          /\ ReportField(get_total_report(calculator)[2], sTransactions)
                = IntToStr(BagCardinality(history))

\* C7: a status asked of a ledger filled again after a clear_all
C7_Witness ==
    /\ fresh.cleared
    /\ last.op = "get_status"
    /\ last.ret # None
    /\ last.ret[1].transaction_count = BagCardinality(history)

\* the labels and the wallets of the transactions recorded since clear_all
LabelsOf(B) == {e.label : e \in BagToSet(B)}
WalletsOf(B) == {e.wallet : e \in BagToSet(B)}

\* C8 as the spec states it: the count beside transaction_count, and the
\* count of the report's statistics, is the number of labels that hold a
\* transaction.
C8_CountsLabels ==
    history # EmptyBag =>
        /\ get_status(calculator)[2][1].wallet_count = Cardinality(LabelsOf(history))
        /\ ReportField(get_total_report(calculator)[2], sWallets)
              = IntToStr(Cardinality(LabelsOf(history)))

\* C8, amended: the count beside transaction_count, and the count of the
\* report's statistics, is the number of distinct wallet addresses of the
\* transactions recorded since the last clear_all, whatever their labels.
C8_CountsWallets ==
    history # EmptyBag =>
        /\ get_status(calculator)[2][1].wallet_count = Cardinality(WalletsOf(history))
        /\ ReportField(get_total_report(calculator)[2], sWallets)
              = IntToStr(Cardinality(WalletsOf(history)))

\* C8: a status asked when one label holds transactions of two wallets
C8_Witness ==
    /\ last.op = "get_status"
    /\ last.ret # None
    /\ Cardinality(LabelsOf(history)) = 1
    /\ last.ret[1].wallet_count = 2

\* the lines of a report before the separator line
Body(report) ==
    SubSeq(report, 1, (CHOOSE k \in 1..Len(report) : report[k] = sSeparator) - 1)

\* the lines of the body of a report that name a hashtag
KeyRows(body) == {i \in 1..Len(body) : StartsWith(body[i], <<"#">>)}

\* the currency lines of the block whose hashtag line is line i
BlockRows(body, i) ==
    {j \in (i + 1)..Len(body) : \A k \in (i + 1)..j : k \notin KeyRows(body)}

\* the currency code of a currency line: what follows the amount
CurrencyOfRow(row) == SubSeq(row, RunLen(row, 1, CharSet \ SpaceSet) + 2, Len(row))

\* the normalized label of the spec: no leading '#', lower case (the code
\* has collapsed the white space)
NormalizedLabel(hashtag) == Lower(Tail(hashtag))

\* the blocks of a body are in the order Less of what f makes of their
\* hashtag lines
BlocksOrdered(body, f(_)) ==
    \A i, j \in KeyRows(body) : i < j => StrLess(f(body[i]), f(body[j]))

\* C9 as the spec states it: the blocks of the report are in the
\* lexicographic order of the normalized labels (looked at when every key
\* of the ledger is the label of a hashtag line).
C9_NormalizedLabelOrder ==
    (history # EmptyBag /\ LabelsOf(history) \cap {<<"#">> \o n : n \in Networks} = {}) =>
        BlocksOrdered(Body(get_total_report(calculator)[2]), NormalizedLabel)

StoredKey(hashtag) == hashtag

\* the report has one block for each key of led, and each block one line
\* for each currency of the key, in the code point order of the currency
BlocksOfLedger(body, led) ==
    /\ Cardinality(KeyRows(body)) = Len(led)
    /\ {body[i] : i \in KeyRows(body)} = KeySet(led)
    /\ \A i \in KeyRows(body) :
          /\ Cardinality(BlockRows(body, i)) = Len(DictGet(led, body[i]))
          /\ {CurrencyOfRow(body[j]) : j \in BlockRows(body, i)}
                = KeySet(DictGet(led, body[i]))
          /\ \A j, k \in BlockRows(body, i) :
                j < k => StrLess(CurrencyOfRow(body[j]), CurrencyOfRow(body[k]))

\* C9, amended: the report has one block for each key of the ledger, in the
\* code point order of the keys as they are stored (with the '#' and in the
\* case of the text, so every upper case letter sorts before every lower
\* case letter), whatever the insertion order; each block has one line for
\* each currency of its key, in the code point order of the currency codes.
C9_StoredKeyOrder ==
    history # EmptyBag =>
        /\ BlocksOrdered(Body(get_total_report(calculator)[2]), StoredKey)
        /\ BlocksOfLedger(Body(get_total_report(calculator)[2]), calculator.transactions)

\* C9: a report of a ledger whose keys and currencies were not inserted in
\* their sorted order
C9_Witness ==
    /\ last.op = "get_total_report"
    /\ Len(calculator.transactions) >= 2
    /\ DictKeys(calculator.transactions) # SortedKeys(calculator.transactions)
    /\ \E i \in 1..Len(calculator.transactions) :
          /\ Len(calculator.transactions[i][2]) >= 2
          /\ DictKeys(calculator.transactions[i][2]) # SortedKeys(calculator.transactions[i][2])

\* the (label, amount, currency) tuples of a bag of transactions
RECURSIVE TuplesOf(_, _)
TuplesOf(B, S) ==
    IF S = {} THEN EmptyBag
    ELSE LET e == CHOOSE x \in S : TRUE
         IN  [x \in {<<e.label, e.amount, e.currency>>} |-> B[e]] (+) TuplesOf(B, S \ {e})

Tuples(B) == TuplesOf(B, BagToSet(B))

\* C10 as the spec states it: two calculators that recorded the same
\* multiset of (label, amount, currency) tuples return the same report.
C10_SameTuplesSameReport ==
    Tuples(history) = Tuples(other_history) =>
        get_total_report(calculator)[2] = get_total_report(other)[2]

\* C10, amended: two calculators that recorded the same multiset of (label,
\* amount, currency) tuples and as many distinct wallet addresses return the
\* same report, whatever the order of the lines and of the calls.
C10_SameTuplesAndWallets ==
    (/\ Tuples(history) = Tuples(other_history)
     /\ Cardinality(WalletsOf(history)) = Cardinality(WalletsOf(other_history))) =>
        get_total_report(calculator)[2] = get_total_report(other)[2]

\* C10: two calculators with the same tuples and wallets, recorded in
\* different orders
C10_Witness ==
    /\ history # EmptyBag
    /\ Tuples(history) = Tuples(other_history)
    /\ WalletsOf(history) = WalletsOf(other_history)
    /\ DictKeys(calculator.transactions) # DictKeys(other.transactions)
    /\ get_total_report(calculator)[2] = get_total_report(other)[2]

-----------------------------------------------------------------------------
(* C11: the key a label marker line gives                                  *)

\* the label of a marker line with the leading '#' stripped, lowercased and
\* its whitespace runs collapsed
StrippedLowered(line) == Lower(Join(Split(Tail(line))))

\* the marker line with its whitespace runs collapsed only
Collapsed(line) == Join(Split(line))

\* the transactions the last call recorded after a label marker line of its
\* text
AfterMarker ==
    IF last.op = "add_transactions"
    THEN {n \in 1..Len(last.recorded) : last.facts[last.recorded[n].line].marker # None}
    ELSE {}

MarkerOf(n) == last.facts[last.recorded[n].line].marker

\* C11 as stated: the key of a transaction recorded after a label marker
\* line is the label of that line with '#' stripped, lowercased and
\* whitespace collapsed, so the ledger holds no second key that differs from
\* it only in letter case or whitespace
C11_CaseAndSpaceShareKey ==
    \A n \in AfterMarker :
        \A k \in KeySet(calculator.transactions) :
            StrippedLowered(k) = StrippedLowered(MarkerOf(n)) => k = last.recorded[n].key

\* C11 as the code has it: the key of a transaction recorded after a label
\* marker line is that line with its whitespace runs collapsed, '#' and
\* letter case kept; collapsing a key again returns it unchanged, so marker
\* lines that differ only in whitespace share one key and the ledger holds no
\* second key that differs from it only in whitespace
C11_SpaceSharesKey ==
    \A n \in AfterMarker :
        /\ last.recorded[n].key = Collapsed(MarkerOf(n))
        /\ Collapsed(last.recorded[n].key) = last.recorded[n].key
        /\ \A k \in KeySet(calculator.transactions) :
               Collapsed(k) = Collapsed(MarkerOf(n)) => k = last.recorded[n].key

\* a transaction is recorded after a marker line that holds a run of two
\* spaces, under the key an earlier call filled
C11_Witness ==
    /\ last.op = "add_transactions"
    /\ last.total_before > 0
    /\ Cardinality(KeySet(calculator.transactions)) = 1
    /\ \E n \in AfterMarker : MarkerOf(n) # last.recorded[n].key

-----------------------------------------------------------------------------
(* C12: the total USD figure of the report                                 *)

\* the sum, over the pairs P of a label and a currency, of the ledger total
\* times the rate of the currency, in 1/10000
RECURSIVE UsdOf(_, _)
UsdOf(self, P) ==
    IF P = {} THEN 0
    ELSE LET lc == CHOOSE x \in P : TRUE
         IN  LedgerTotal(self, lc[1], lc[2])[1] * rates[lc[2]] + UsdOf(self, P \ {lc})

RatedPairs(self) == {lc \in LedgerPairs(self) : lc[2] \in DOMAIN rates}

\* the currency lines the report shows under a hashtag
RowsUnder(body, hashtag) ==
    {body[j] : j \in BlockRows(body, CHOOSE i \in KeyRows(body) : body[i] = hashtag)}

\* C12: the total USD figure of the report is the sum, over the labels and
\* the currencies that have a rate, of the ledger total times the rate,
\* shown with two decimals; a currency without a rate adds nothing to it and
\* has its line with its native amount under its label.
C12_UsdTotal ==
    Len(calculator.transactions) > 0 =>
        /\ ReportField(get_total_report(calculator)[2], sTotal)
              = Format2f(RoundToHundredths(UsdOf(calculator, RatedPairs(calculator)))) \o sUSD
        /\ \A lc \in LedgerPairs(calculator) :
              Format2f(LedgerTotal(calculator, lc[1], lc[2])[1]) \o <<" ">> \o lc[2]
                  \in RowsUnder(Body(get_total_report(calculator)[2]), lc[1])

\* a report was made of a ledger that holds a currency with a rate and one
\* without
C12_Witness ==
    /\ last.op = "get_total_report"
    /\ RatedPairs(calculator) # {}
    /\ LedgerPairs(calculator) \ RatedPairs(calculator) # {}
    /\ ReportField(last.ret, sTotal) # <<"0", ".", "0", "0">> \o sUSD

-----------------------------------------------------------------------------
(* C14: which lines that begin with '#' become the active label            *)

\* the transactions the last call recorded after a line that begins with '#'
AfterSharp ==
    IF last.op = "add_transactions"
    THEN {n \in 1..Len(last.recorded) : last.facts[last.recorded[n].line].sharp # None}
    ELSE {}

SharpOf(n) == last.facts[last.recorded[n].line].sharp

\* a line that begins with '#' and names a label: it holds no '|', is not
\* one of the simple tags, and holds a space or more than five characters
NamesLabel(line) ==
    /\ ~Contains(line, <<"|">>)
    /\ Lower(Collapsed(line)) \notin simple_tags
    /\ (Contains(Collapsed(line), <<" ">>) \/ Len(Collapsed(line)) > 5)

-----------------------------------------------------------------------------
(* C20: a label marker line while a transaction is pending                 *)

\* the facts of the Received line of the n-th transaction of the last call
FactsOfEntry(n) == last.facts[last.recorded[n].line]

\* the address the code keeps for a Received line with the facts f: the
\* explorer address of the line itself, else the one of the last link line
\* before the next Received line, else the token after 'from'
AddressOf(f) ==
    IF f.link # None THEN f.link
    ELSE IF DOMAIN f.links # {} THEN f.links[Greatest(DOMAIN f.links)]
    ELSE f.wallet_short

\* the transactions the last call recorded that had a label marker line
\* between their Received line and the next Received line or the end
MarkerWhilePending ==
    IF last.op = "add_transactions"
    THEN {n \in 1..Len(last.recorded) : FactsOfEntry(n).marker_after # None}
    ELSE {}

-----------------------------------------------------------------------------
(* C15: a Received line for which no address is found                      *)

\* the Received lines of the text of the last call that are under an active
\* label and whose amount and currency match the primary pattern
PricedRows ==
    IF last.op = "add_transactions"
    THEN {i \in DOMAIN last.facts :
              last.facts[i].marker # None /\ last.facts[i].amount_currency # <<>>}
    ELSE {}

\* the transactions the last call recorded for line i of its text
EntriesOf(i) == {n \in 1..Len(last.recorded) : last.recorded[n].line = i}

\* no explorer address is found for a Received line with the facts f
NoExplorerAddress(f) == f.link = None /\ DOMAIN f.links = {}

\* C15 as stated: a Received line under an active label whose amount and
\* currency match is recorded even when no address is found for it, be it
\* an explorer address or a token after 'from'
C15_RecordedWithoutAddress ==
    \A i \in PricedRows : Cardinality(EntriesOf(i)) = 1

\* C15 as the code has it: such a line is recorded, once, exactly when it
\* holds a token after 'from'; with a token and no explorer address it is
\* recorded with the token as its address, with no token it is dropped, and
\* the call counts the recorded lines only
C15_RecordedWithToken ==
    /\ \A i \in PricedRows :
          /\ last.facts[i].wallet_short # None => Cardinality(EntriesOf(i)) = 1
          /\ last.facts[i].wallet_short = None => EntriesOf(i) = {}
          /\ \A n \in EntriesOf(i) :
                NoExplorerAddress(last.facts[i]) =>
                    last.recorded[n].wallet = last.facts[i].wallet_short
    /\ last.op = "add_transactions" => last.ret = Len(last.recorded)

\* a call with a line that has a token after 'from' and no explorer address,
\* recorded, and a line with no token, dropped
C15_Witness ==
    /\ \E i \in PricedRows :
          /\ last.facts[i].wallet_short # None
          /\ NoExplorerAddress(last.facts[i])
          /\ EntriesOf(i) # {}
    /\ \E i \in PricedRows : last.facts[i].wallet_short = None /\ EntriesOf(i) = {}

-----------------------------------------------------------------------------
(* C17: where the deferred enrichment of a pending transaction ends        *)

\* the transactions the last call recorded whose Received line holds no
\* explorer address
Deferred ==
    IF last.op = "add_transactions"
    THEN {n \in 1..Len(last.recorded) : FactsOfEntry(n).link = None}
    ELSE {}

\* the address of the last of the link lines ls, the token when there is none
LastLink(ls, token) == IF DOMAIN ls # {} THEN ls[Greatest(DOMAIN ls)] ELSE token

\* C17 as stated: the address of a transaction whose Received line holds no
\* explorer address is taken from the link lines before the next label
\* marker line or Received line only
C17_EndsAtMarkerOrReceived ==
    \A n \in Deferred :
        last.recorded[n].wallet
            = LastLink(FactsOfEntry(n).links_to_marker, FactsOfEntry(n).wallet_short)

\* C17 as the code has it: the address is taken from the link lines before
\* the next line that holds 'received:' or the end of the text, the last of
\* them when there are several; a label marker line in between does not end
\* the enrichment, and a link line after the next Received line is never
\* attached
C17_EndsAtReceived ==
    \A n \in Deferred :
        last.recorded[n].wallet
            = LastLink(FactsOfEntry(n).links, FactsOfEntry(n).wallet_short)

\* a transaction that took its address from a link line after a label
\* marker line
C17_Witness ==
    \E n \in Deferred :
        /\ FactsOfEntry(n).links # FactsOfEntry(n).links_to_marker
        /\ last.recorded[n].wallet # FactsOfEntry(n).wallet_short

-----------------------------------------------------------------------------
(* C19: the address that enters the set of distinct addresses              *)

\* an explorer address is found for a Received line with the facts f
HasExplorerAddress(f) == f.link # None \/ DOMAIN f.links # {}

\* C19: a call adds to the set of addresses, for each transaction it
\* records, the explorer address when one is found on the Received line or
\* on a link line before the next Received line, and the token after 'from'
\* only when none is found; the token of a transaction that has an explorer
\* address enters the set only as the address of another transaction.
C19_ExplorerAddressPreferred ==
    last.op = "add_transactions" =>
        /\ calculator.wallets_seen
              = last.wallets_before
                  \cup {AddressOf(FactsOfEntry(n)) : n \in 1..Len(last.recorded)}
        /\ \A n \in 1..Len(last.recorded) :
              HasExplorerAddress(FactsOfEntry(n)) =>
                  /\ last.recorded[n].wallet # FactsOfEntry(n).wallet_short
                  /\ last.recorded[n].wallet \in calculator.wallets_seen
                  /\ FactsOfEntry(n).wallet_short \in calculator.wallets_seen =>
                        \E m \in 1..Len(last.recorded) :
                            /\ ~HasExplorerAddress(FactsOfEntry(m))
                            /\ FactsOfEntry(m).wallet_short = FactsOfEntry(n).wallet_short

\* a call that recorded one transaction with an explorer address on its
\* Received line and one with an explorer address on a later line, and left
\* both tokens out of the set
C19_Witness ==
    /\ last.op = "add_transactions"
    /\ \E n \in 1..Len(last.recorded) : FactsOfEntry(n).link # None
    /\ \E n \in 1..Len(last.recorded) :
          FactsOfEntry(n).link = None /\ DOMAIN FactsOfEntry(n).links # {}
    /\ \A n \in 1..Len(last.recorded) :
          FactsOfEntry(n).wallet_short \notin calculator.wallets_seen

-----------------------------------------------------------------------------
(* C13: the sessions of two users                                          *)

\* what /status shows to a user: _status reads the one calculator of the
\* bot, whoever asks
StatusShownTo(user) == status(calculator)

\* C13: a message, a /clear or a /finish_count of one user leaves what
\* /status shows to the other user as it was before.
C13_SessionsIsolated ==
    last.op \in {"_handle_text", "_clear", "_finish"} =>
        \A user \in Users \ {last.user} : StatusShownTo(user) = last.status_before

-----------------------------------------------------------------------------
(* C16: the label carried from one message of a user to the next           *)

\* the last message was read by _handle_text, held no label marker line and
\* had transactions recorded
Unmarked == last.op = "_handle_text" /\ ~last.marked /\ last.keys # {}

\* C16 as stated: the transactions of a message with no label marker are
\* under the label of the last label marker of any earlier message of the
\* user since the user's last clear, be it a message with transaction lines
\* or without
C16_LastSeenLabel ==
    (Unmarked /\ last.seen_before # None) => last.keys = {last.seen_before}

\* C16 as the code has it: the saved hashtag of a user is the label of the
\* last label marker of the user's earlier messages that held no Received
\* line, since the user's last /clear or /finish_count; the transactions of
\* a message with no label marker are under it, and under '#' and a network
\* when there is none
C16_LastLabelSentAlone ==
    /\ \A user \in Users : bot.last_hashtag[user] = sessions[user].seen_alone
    /\ (Unmarked /\ last.alone_before # None) => last.keys = {last.alone_before}
    /\ (Unmarked /\ last.alone_before = None) =>
           last.keys \subseteq {<<"#">> \o n : n \in Networks}

\* a message with no label marker recorded under the label a user sent
\* alone, after a later message of the user with another label and a
\* transaction
C16_Witness ==
    /\ Unmarked
    /\ last.alone_before # None
    /\ last.seen_before # last.alone_before
    /\ last.keys = {last.alone_before}

-----------------------------------------------------------------------------
(* C18: the report and the clear of /finish_count                          *)

\* the report shows the number of the transactions of the bag B and, for
\* each label and currency of B, the sum of their amounts
ReportOf(report, B) ==
    /\ report # <<sNoTransactions>>
    /\ ReportField(report, sTransactions) = IntToStr(BagCardinality(B))
    /\ {report[i] : i \in KeyRows(Body(report))} = {lc[1] : lc \in BagPairs(B)}
    /\ \A lc \in BagPairs(B) :
          Format2f(SumAmounts(B, Under(B, lc[1], lc[2]))) \o <<" ">> \o lc[2]
              \in RowsUnder(Body(report), lc[1])

\* C18: when /finish_count makes a report, the report shows exactly the
\* transactions recorded since the last clear, whichever handlers recorded
\* them and whichever handlers still await, and the clear wipes those and no
\* other; when it makes none, there was no transaction and none is wiped.
C18_ReportThenClear ==
    last.op = "_finish" =>
        IF last.finished
        THEN /\ last.reply.kind = "report"
             /\ ReportOf(last.reply.report, last.wiped)
             /\ calculator = NewCalculator
             /\ history = EmptyBag
        ELSE /\ last.wiped = EmptyBag
             /\ history = EmptyBag
             /\ last.reply.kind = "no_transactions"

\* a /finish_count that reports the transactions of two messages while the
\* handler of the other user awaits its reply
C18_Witness ==
    /\ last.op = "_finish"
    /\ last.finished
    /\ BagCardinality(last.wiped) > 1
    /\ \E user \in Users \ {last.user} : bot.awaiting[user] = <<"added">>

-----------------------------------------------------------------------------
(* C21: the counter, the addresses and the keys                            *)

\* the addresses and the ledger keys are each at most as many as the
\* counter says, and right after clear_all all three are zero
C21_CountsBounded ==
    /\ Cardinality(calculator.wallets_seen) <= calculator.total_transactions
    /\ Len(calculator.transactions) <= calculator.total_transactions
    /\ last.op = "clear_all" =>
          /\ calculator.total_transactions = 0
          /\ calculator.wallets_seen = {}
          /\ calculator.transactions = EmptyDict

\* a step that does not lower the counter adds at most as many addresses
\* and at most as many keys as it adds to the counter
C21_StepAddsAtMostOne ==
    calculator'.total_transactions >= calculator.total_transactions =>
        /\ Cardinality(calculator'.wallets_seen) - Cardinality(calculator.wallets_seen)
              <= calculator'.total_transactions - calculator.total_transactions
        /\ Len(calculator'.transactions) - Len(calculator.transactions)
              <= calculator'.total_transactions - calculator.total_transactions

\* C21: in every reachable state the number of distinct addresses and the
\* number of ledger keys are each at most the transaction counter, all three
\* are zero right after clear_all, and each recorded transaction adds at most
\* one address and at most one key.
C21_AtMostOnePerTransaction ==
    []C21_CountsBounded /\ [][C21_StepAddsAtMostOne]_vars

\* after a clear_all of a filled ledger, two transactions that share one
\* address and one key: the counter is above both numbers
C21_Witness ==
    /\ fresh.cleared
    /\ last.op = "add_transactions"
    /\ calculator.total_transactions = 2
    /\ Cardinality(calculator.wallets_seen) = 1
    /\ Len(calculator.transactions) = 1

=============================================================================
